---- MODULE Spec2Model ----
(***************************************************************************)
(* A model of package link (src/link.go): the one-way copy loop            *)
(* OneWayLinkSpec and the two-way relay TwoWayLinkSpec that runs two such  *)
(* loops, one in a goroutine and one in the caller's flow.                 *)
(*                                                                         *)
(* Direction 1 is the copy h1 -> h2 (it reads endpoint 1 and writes        *)
(* endpoint 2), direction 2 is the copy h2 -> h1.  In the specification    *)
(* SpecOneWay only direction 1 runs, as a bare call of OneWayLinkSpec.     *)
(***************************************************************************)
EXTENDS Integers, Sequences, FiniteSets, TLC

VARIABLES
    src,      \* src[d]: the bytes the source of direction d has not delivered yet
    buf,      \* buf[d]: the buf argument: whether it is nil, and its length
    cb,       \* cb[d]: the transform argument, "nil" or the name of a function
    ctx,      \* the context: "nil", "live" or "done" (cancelled)
    pc,       \* pc[d]: the position of the copy loop of direction d
    rn,       \* rn[d]: the count the last Read returned
    er,       \* er[d]: the error the last Read returned
    chunk,    \* chunk[d]: buf[:rn], the bytes the last Read put in the buffer
    written,  \* written[d]: the named result written of OneWayLinkSpec
    err,      \* err[d]: the named result err of OneWayLinkSpec
    trace,    \* trace[d]: the Read and Write calls direction d has made, in order
    closed,   \* closed[h]: how many times Close was called on endpoint h
    closers,  \* closers[h]: the flows that have called Close on endpoint h
    pcBg,     \* the position of the goroutine of TwoWayLinkSpec
    pcMain,   \* the position of the caller's flow in TwoWayLinkSpec
    linkErr,  \* the local variable err of TwoWayLinkSpec, shared by both flows
    w1, w2, e1, e2,  \* the named results of TwoWayLinkSpec
    exit,     \* whether the channel exit has been closed, and how often
    order     \* the directions whose copy has returned, in the order they returned

vars == <<src, buf, cb, ctx, pc, rn, er, chunk, written, err, trace, closed,
          closers, pcBg, pcMain, linkErr, w1, w2, e1, e2, exit, order>>

copyVars == <<src, pc, rn, er, chunk, written, err, trace, order>>
argVars  == <<buf, cb>>
linkVars == <<closed, closers, pcBg, pcMain, linkErr, w1, w2, e1, e2, exit>>

(***************************************************************************)
(* Bounds of the model.                                                    *)
(***************************************************************************)
MaxSrcLen  == 2   \* longest source of a bare one-way copy
MaxBuf     == 2   \* longest caller-supplied buffer
MaxIdle    == 1   \* most Reads of one copy that return (0, nil)
MaxLinkLen == 1   \* longest source of a direction of the two-way relay
MaxLinkIdle == 0  \* most Reads of one direction of the relay that return (0, nil)

defaultBufferSize == 1024

Dir == {1, 2}
Other(d) == 3 - d

\* The bytes sources are made of: 'a' (97) and 'B' (66).
Alphabet == {97, 66}

RECURSIVE SeqsUpTo(_, _)
SeqsUpTo(S, n) ==
    IF n = 0 THEN {<<>>}
    ELSE LET shorter == SeqsUpTo(S, n - 1)
         IN  shorter \cup {Append(s, b) : s \in {t \in shorter : Len(t) = n - 1}, b \in S}

Min(a, b) == IF a < b THEN a ELSE b

(***************************************************************************)
(* The transforms a caller may pass as cb.  "nil" is the absent transform. *)
(***************************************************************************)
ToUpper(b) == IF b >= 97 /\ b <= 122 THEN b - 32 ELSE b

Callbacks == {"nil", "upper", "double", "trunc"}

Apply(f, s) ==
    CASE f = "upper"  -> [i \in 1..Len(s) |-> ToUpper(s[i])]
      [] f = "double" -> s \o s
      [] f = "trunc"  -> SubSeq(s, 1, Len(s) - 1)
      [] OTHER        -> s

\* The buffers a caller may pass as buf: nil, or a slice of 1..MaxBuf bytes.
NilBuffer == [nil |-> TRUE, len |-> 0]
Buffers == {NilBuffer} \cup {[nil |-> FALSE, len |-> n] : n \in 1..MaxBuf}

\* A variant of BufLen that allocates the default buffer whatever buf is.
BufLenAlwaysDefault(d) == defaultBufferSize

\* Lines 24-26: a nil buf is replaced by a buffer of defaultBufferSize bytes.
BufLen(d) == IF buf[d].nil THEN defaultBufferSize ELSE buf[d].len

\* A variant of Tbuf that writes the bytes as read, without the transform.
TbufUntransformed(d) == chunk[d]

\* Lines 37-40: tbuf is buf[:rn], passed through cb when cb is not nil.
Tbuf(d) == IF cb[d] # "nil" THEN Apply(cb[d], chunk[d]) ELSE chunk[d]

\* A relay is running when its flows are; a bare one-way copy has none.
IdleBound == IF pcMain = "off" THEN MaxIdle ELSE MaxLinkIdle

Idles(d) == Cardinality({i \in 1..Len(trace[d]) :
                /\ trace[d][i].op = "Read"
                /\ trace[d][i].n = 0
                /\ trace[d][i].e = "nil"})

(***************************************************************************)
(* What a Read of direction d may return.  Direction d reads endpoint d.   *)
(* An open source returns up to len(buf) of its next bytes, with no error, *)
(* with io.EOF once everything is delivered, or with a read error.  A      *)
(* closed endpoint returns (0, ErrClosed).                                 *)
(***************************************************************************)
ReadResults(d) ==
    IF closed[d] > 0
    THEN {<<0, "ErrClosed">>}
    ELSE {<<n, e>> \in (0..Min(BufLen(d), Len(src[d]))) \X {"nil", "EOF", "ErrRead"} :
            /\ e = "EOF" => n = Len(src[d])
            /\ (n = 0 /\ e = "nil") => Idles(d) < IdleBound}

(***************************************************************************)
(* What a Write of t by direction d may return.  Direction d writes the    *)
(* other endpoint.  An open destination takes any prefix of t, with or     *)
(* without an error; a closed endpoint returns (0, ErrClosed).             *)
(***************************************************************************)
WriteResults(d, t) ==
    IF closed[Other(d)] > 0
    THEN {<<0, "ErrClosed">>}
    ELSE (0..Len(t)) \X {"nil", "ErrWrite"}

\* Lines 54-59 and 61: the copy returns; order records which copy returned first.
Finish(d) == order' = Append(order, d)

\* A variant of AfterRead that reports io.EOF like any other error.
AfterReadReportsEOF(d, e) ==
    IF e # "nil"
    THEN /\ err' = [err EXCEPT ![d] = e]
         /\ pc' = [pc EXCEPT ![d] = "done"]
         /\ Finish(d)
    ELSE /\ pc' = [pc EXCEPT ![d] = "read"]
         /\ UNCHANGED <<err, order>>

\* A variant of AfterRead that takes a Read of (0, nil) for the end of the input.
AfterReadStopsOnEmpty(d, e) ==
    IF e # "nil" \/ pc[d] = "read"
    THEN /\ err' = [err EXCEPT ![d] = IF e # "EOF" /\ e # "nil" THEN e ELSE @]
         /\ pc' = [pc EXCEPT ![d] = "done"]
         /\ Finish(d)
    ELSE /\ pc' = [pc EXCEPT ![d] = "read"]
         /\ UNCHANGED <<err, order>>

\* A variant of AfterRead that, at the end of the input, waits for the context
\* to be done before it returns.
AfterReadAwaitsCancel(d, e) ==
    IF e # "nil"
    THEN /\ err' = [err EXCEPT ![d] = IF e # "EOF" THEN e ELSE @]
         /\ IF e = "EOF" /\ ctx # "done"
            THEN /\ pc' = [pc EXCEPT ![d] = "blocked"]
                 /\ UNCHANGED order
            ELSE /\ pc' = [pc EXCEPT ![d] = "done"]
                 /\ Finish(d)
    ELSE /\ pc' = [pc EXCEPT ![d] = "read"]
         /\ UNCHANGED <<err, order>>

\* Lines 54-59: the error of the Read ends the loop, and io.EOF is not reported;
\* with no error the loop goes round to the next Read.
AfterRead(d, e) ==
    IF e # "nil"
    THEN /\ err' = [err EXCEPT ![d] = IF e # "EOF" THEN e ELSE @]
         /\ pc' = [pc EXCEPT ![d] = "done"]
         /\ Finish(d)
    ELSE /\ pc' = [pc EXCEPT ![d] = "read"]
         /\ UNCHANGED <<err, order>>

\* A variant of Select whose break leaves the loop when the context is done.
SelectLeavesLoop == ctx # "nil" /\ ctx = "done"

\* Lines 29-35: the select on ctx.Done().  Its break leaves the select only, so
\* the loop body goes on whatever the context says: the result is whether the
\* loop is left here.
Select == IF ctx # "nil" THEN (IF ctx = "done" THEN FALSE ELSE FALSE) ELSE FALSE

\* Lines 28-36 (and 54-59 when rn = 0): rn, er := src.Read(buf), the select on
\* the context, and the test of rn.
OneWayRead(d) ==
    /\ pc[d] = "read"
    /\ \E r \in ReadResults(d) :
         /\ rn' = [rn EXCEPT ![d] = r[1]]
         /\ er' = [er EXCEPT ![d] = r[2]]
         /\ chunk' = [chunk EXCEPT ![d] = SubSeq(src[d], 1, r[1])]
         /\ src' = [src EXCEPT ![d] = SubSeq(src[d], r[1] + 1, Len(src[d]))]
         /\ trace' = [trace EXCEPT ![d] =
                Append(@, [op |-> "Read", data |-> SubSeq(src[d], 1, r[1]),
                           n |-> r[1], e |-> r[2]])]
         /\ IF Select
            THEN /\ pc' = [pc EXCEPT ![d] = "done"]
                 /\ Finish(d)
                 /\ UNCHANGED err
            ELSE IF r[1] > 0
            THEN /\ pc' = [pc EXCEPT ![d] = "write"]
                 /\ UNCHANGED <<err, order>>
            ELSE AfterRead(d, r[2])
    /\ UNCHANGED <<written, argVars, ctx, linkVars>>

\* A variant of AfterWrite that tests for a short write before it tests ew.
AfterWriteShortFirst(d, wn, ew) ==
    /\ written' = [written EXCEPT ![d] = IF wn > 0 THEN @ + wn ELSE @]
    /\ IF wn # rn[d]
       THEN /\ err' = [err EXCEPT ![d] = "ErrShortWrite"]
            /\ pc' = [pc EXCEPT ![d] = "done"]
            /\ Finish(d)
       ELSE IF ew # "nil"
       THEN /\ err' = [err EXCEPT ![d] = ew]
            /\ pc' = [pc EXCEPT ![d] = "done"]
            /\ Finish(d)
       ELSE AfterRead(d, er[d])

\* Lines 42-52 (and 54-59 after a full write): what the loop does with the
\* result (wn, ew) of the Write.
AfterWrite(d, wn, ew) ==
    /\ written' = [written EXCEPT ![d] = IF wn > 0 THEN @ + wn ELSE @]
    /\ IF ew # "nil"
       THEN /\ err' = [err EXCEPT ![d] = ew]
            /\ pc' = [pc EXCEPT ![d] = "done"]
            /\ Finish(d)
       ELSE IF wn # rn[d]
       THEN /\ err' = [err EXCEPT ![d] = "ErrShortWrite"]
            /\ pc' = [pc EXCEPT ![d] = "done"]
            /\ Finish(d)
       ELSE AfterRead(d, er[d])

\* A variant of OneWayWrite that closes the destination when the Write ends the copy.
OneWayWriteThenClose(d) ==
    /\ pc[d] = "write"
    /\ \E w \in WriteResults(d, Tbuf(d)) :
         /\ trace' = [trace EXCEPT ![d] =
                Append(@, [op |-> "Write", data |-> Tbuf(d), n |-> w[1], e |-> w[2]])]
         /\ AfterWrite(d, w[1], w[2])
         /\ closed' = [closed EXCEPT ![Other(d)] =
                IF w[2] # "nil" \/ w[1] # rn[d] \/ er[d] # "nil" THEN @ + 1 ELSE @]
    /\ UNCHANGED <<src, rn, er, chunk, argVars, ctx,
                   closers, pcBg, pcMain, linkErr, w1, w2, e1, e2, exit>>

\* Lines 37-59: transform the chunk, write it, account for the result.
OneWayWrite(d) ==
    /\ pc[d] = "write"
    /\ \E w \in WriteResults(d, Tbuf(d)) :
         /\ trace' = [trace EXCEPT ![d] =
                Append(@, [op |-> "Write", data |-> Tbuf(d), n |-> w[1], e |-> w[2]])]
         /\ AfterWrite(d, w[1], w[2])
    /\ UNCHANGED <<src, rn, er, chunk, argVars, ctx, linkVars>>

\* The owner of the context cancels it.
Cancel ==
    /\ ctx = "live"
    /\ ctx' = "done"
    /\ UNCHANGED <<copyVars, argVars, linkVars>>

(***************************************************************************)
(* A bare call OneWayLinkSpec(ctx, src, dst, buf, cb): direction 1 alone.  *)
(***************************************************************************)
InitCopy ==
    /\ pc = [d \in Dir |-> IF d = 1 THEN "read" ELSE "off"]
    /\ rn = [d \in Dir |-> 0]
    /\ er = [d \in Dir |-> "nil"]
    /\ chunk = [d \in Dir |-> <<>>]
    /\ written = [d \in Dir |-> 0]
    /\ err = [d \in Dir |-> "nil"]
    /\ trace = [d \in Dir |-> <<>>]
    /\ order = <<>>

InitLinkOff ==
    /\ closed = [h \in Dir |-> 0]
    /\ closers = [h \in Dir |-> {}]
    /\ pcBg = "off"
    /\ pcMain = "off"
    /\ linkErr = "nil"
    /\ w1 = 0
    /\ w2 = 0
    /\ e1 = "nil"
    /\ e2 = "nil"
    /\ exit = 0

InitOneWay ==
    /\ \E s \in SeqsUpTo(Alphabet, MaxSrcLen) : src = [d \in Dir |-> IF d = 1 THEN s ELSE <<>>]
    /\ \E b \in Buffers : buf = [d \in Dir |-> b]
    /\ \E f \in Callbacks : cb = [d \in Dir |-> f]
    /\ ctx \in {"nil", "live", "done"}
    /\ InitCopy
    /\ InitLinkOff

NextOneWay ==
    \/ OneWayRead(1)
    \/ OneWayWrite(1)
    \/ Cancel

SpecOneWay == InitOneWay /\ [][NextOneWay]_vars

(***************************************************************************)
(* A bare call of OneWayLinkSpec on a source and a destination whose calls *)
(* return: a Read that is called returns, and so does a Write.             *)
(***************************************************************************)
FairOneWay ==
    /\ SpecOneWay
    /\ WF_vars(OneWayRead(1))
    /\ WF_vars(OneWayWrite(1))

(***************************************************************************)
(* A bare call of OneWayLinkSpec with no transform on a source that fills  *)
(* the buffer on every Read as far as bytes remain: the source is          *)
(* "hello world" or a prefix of it, the buffer is nil or has 1..MaxFillBuf *)
(* bytes.                                                                  *)
(***************************************************************************)
MaxFillBuf == 4   \* longest caller-supplied buffer of the filling source

HelloWorld == <<104, 101, 108, 108, 111, 32, 119, 111, 114, 108, 100>>

FillBuffers == {NilBuffer} \cup {[nil |-> FALSE, len |-> n] : n \in 1..MaxFillBuf}

InitFill ==
    /\ \E n \in 0..Len(HelloWorld) :
         src = [d \in Dir |-> IF d = 1 THEN SubSeq(HelloWorld, 1, n) ELSE <<>>]
    /\ \E b \in FillBuffers : buf = [d \in Dir |-> b]
    /\ cb = [d \in Dir |-> "nil"]
    /\ ctx = "nil"
    /\ InitCopy
    /\ InitLinkOff

\* Line 28, on a source that fills buf as far as it has bytes.
FillingRead(d) ==
    /\ OneWayRead(d)
    /\ rn'[d] = Min(BufLen(d), Len(src[d]))

NextFill ==
    \/ FillingRead(1)
    \/ OneWayWrite(1)

SpecFill == InitFill /\ [][NextFill]_vars

(***************************************************************************)
(* TwoWayLinkSpec, lines 73-93.  The goroutine of lines 76-84 runs         *)
(* direction 1, the caller's flow runs direction 2 (line 85).  Both flows  *)
(* assign the one local variable err (line 74) and read it back with no    *)
(* synchronisation between them: each access is a step of its own here, so *)
(* that a read may see the value either flow stored last.                  *)
(***************************************************************************)
Flows == {"bg", "main"}

\* A variant of Close that leaves an endpoint alone once it has been closed.
CloseUnlessClosed(h, f) ==
    /\ closed' = [closed EXCEPT ![h] = IF @ = 0 THEN 1 ELSE @]
    /\ closers' = [closers EXCEPT ![h] = IF closed[h] = 0 THEN @ \cup {f} ELSE @]

\* h.Close() called by flow f
Close(h, f) ==
    /\ closed' = [closed EXCEPT ![h] = @ + 1]
    /\ closers' = [closers EXCEPT ![h] = @ \cup {f}]

\* Line 77: w1, err = OneWayLinkSpec(ctx, h1, h2, buf1, cb1), once the copy returned
BgStore ==
    /\ pcBg = "copy"
    /\ pc[1] = "done"
    /\ w1' = written[1]
    /\ linkErr' = err[1]
    /\ pcBg' = "test"
    /\ UNCHANGED <<copyVars, argVars, ctx, closed, closers, pcMain, w2, e1, e2, exit>>

\* Lines 78-80: if err != nil { e1 = err }
BgTest ==
    /\ pcBg = "test"
    /\ e1' = IF linkErr # "nil" THEN linkErr ELSE e1
    /\ pcBg' = "close1"
    /\ UNCHANGED <<copyVars, argVars, ctx, closed, closers, pcMain, linkErr, w1, w2, e2, exit>>

\* Line 81: h1.Close()
BgClose1 ==
    /\ pcBg = "close1"
    /\ Close(1, "bg")
    /\ pcBg' = "close2"
    /\ UNCHANGED <<copyVars, argVars, ctx, pcMain, linkErr, w1, w2, e1, e2, exit>>

\* Line 82: h2.Close()
BgClose2 ==
    /\ pcBg = "close2"
    /\ Close(2, "bg")
    /\ pcBg' = "signal"
    /\ UNCHANGED <<copyVars, argVars, ctx, pcMain, linkErr, w1, w2, e1, e2, exit>>

\* A variant of BgSignal that closes exit as soon as the copy has returned,
\* ahead of the test of err and of the Close calls.
BgSignalFirst ==
    /\ pcBg \in {"test", "signal"}
    /\ exit = 0
    /\ exit' = exit + 1
    /\ pcBg' = IF pcBg = "signal" THEN "end" ELSE pcBg
    /\ UNCHANGED <<copyVars, argVars, ctx, closed, closers, pcMain, linkErr, w1, w2, e1, e2>>

\* Line 83: close(exit)
BgSignal ==
    /\ pcBg = "signal"
    /\ exit' = exit + 1
    /\ pcBg' = "end"
    /\ UNCHANGED <<copyVars, argVars, ctx, closed, closers, pcMain, linkErr, w1, w2, e1, e2>>

\* A variant of MainStore that assigns the count of direction 2 to w1.
MainStoreIntoW1 ==
    /\ pcMain = "copy"
    /\ pc[2] = "done"
    /\ w1' = written[2]
    /\ linkErr' = err[2]
    /\ pcMain' = "test"
    /\ UNCHANGED <<copyVars, argVars, ctx, closed, closers, pcBg, w2, e1, e2, exit>>

\* Line 85: w2, err = OneWayLinkSpec(ctx, h2, h1, buf2, cb2), once the copy returned
MainStore ==
    /\ pcMain = "copy"
    /\ pc[2] = "done"
    /\ w2' = written[2]
    /\ linkErr' = err[2]
    /\ pcMain' = "test"
    /\ UNCHANGED <<copyVars, argVars, ctx, closed, closers, pcBg, w1, e1, e2, exit>>

\* Lines 86-88: if err != nil { e2 = err }
MainTest ==
    /\ pcMain = "test"
    /\ e2' = IF linkErr # "nil" THEN linkErr ELSE e2
    /\ pcMain' = "close2"
    /\ UNCHANGED <<copyVars, argVars, ctx, closed, closers, pcBg, linkErr, w1, w2, e1, exit>>

\* Line 89: h2.Close()
MainClose2 ==
    /\ pcMain = "close2"
    /\ Close(2, "main")
    /\ pcMain' = "close1"
    /\ UNCHANGED <<copyVars, argVars, ctx, pcBg, linkErr, w1, w2, e1, e2, exit>>

\* A variant of MainClose1 that closes h2 a second time and leaves h1 alone.
MainClose2Again ==
    /\ pcMain = "close1"
    /\ Close(2, "main")
    /\ pcMain' = "wait"
    /\ UNCHANGED <<copyVars, argVars, ctx, pcBg, linkErr, w1, w2, e1, e2, exit>>

\* Line 90: h1.Close()
MainClose1 ==
    /\ pcMain = "close1"
    /\ Close(1, "main")
    /\ pcMain' = "wait"
    /\ UNCHANGED <<copyVars, argVars, ctx, pcBg, linkErr, w1, w2, e1, e2, exit>>

\* A variant of ExitReady for a return that does not wait for the goroutine.
ExitNotAwaited == TRUE

\* Line 91: <-exit, which blocks until the channel is closed
ExitReady == exit > 0

\* Lines 91-92: <-exit; return
MainReturn ==
    /\ pcMain = "wait"
    /\ ExitReady
    /\ pcMain' = "returned"
    /\ UNCHANGED <<copyVars, argVars, ctx, closed, closers, pcBg, linkErr, w1, w2, e1, e2, exit>>

(***************************************************************************)
(* TwoWayLink, lines 65-67: the relay with nil buffers.                    *)
(***************************************************************************)
LinkCallbacks == {"nil"}
LinkAlphabet == {97}

Init ==
    /\ src \in [Dir -> SeqsUpTo(LinkAlphabet, MaxLinkLen)]
    /\ buf = [d \in Dir |-> NilBuffer]
    /\ cb \in [Dir -> LinkCallbacks]
    /\ ctx = "nil"
    /\ pc = [d \in Dir |-> "read"]
    /\ rn = [d \in Dir |-> 0]
    /\ er = [d \in Dir |-> "nil"]
    /\ chunk = [d \in Dir |-> <<>>]
    /\ written = [d \in Dir |-> 0]
    /\ err = [d \in Dir |-> "nil"]
    /\ trace = [d \in Dir |-> <<>>]
    /\ order = <<>>
    /\ closed = [h \in Dir |-> 0]
    /\ closers = [h \in Dir |-> {}]
    /\ pcBg = "copy"
    /\ pcMain = "copy"
    /\ linkErr = "nil"
    /\ w1 = 0
    /\ w2 = 0
    /\ e1 = "nil"
    /\ e2 = "nil"
    /\ exit = 0

Next ==
    \/ \E d \in Dir : OneWayRead(d)
    \/ \E d \in Dir : OneWayWrite(d)
    \/ BgStore
    \/ BgTest
    \/ BgClose1
    \/ BgClose2
    \/ BgSignal
    \/ MainStore
    \/ MainTest
    \/ MainClose2
    \/ MainClose1
    \/ MainReturn

Spec == Init /\ [][Next]_vars

(***************************************************************************)
(* The steps the Go scheduler and the endpoints' contract guarantee to     *)
(* happen: the steps of either flow outside Read and Write, and a Read or  *)
(* Write on an endpoint that has been closed, which returns.  A Read or    *)
(* Write on an open endpoint may block for ever.                           *)
(***************************************************************************)
Progress ==
    \/ BgStore \/ BgTest \/ BgClose1 \/ BgClose2 \/ BgSignal
    \/ MainStore \/ MainTest \/ MainClose2 \/ MainClose1 \/ MainReturn
    \/ \E d \in Dir : closed[d] > 0 /\ OneWayRead(d)
    \/ \E d \in Dir : closed[Other(d)] > 0 /\ OneWayWrite(d)

FairSpec == Spec /\ WF_vars(Progress)

(***************************************************************************)
(* What the trace of a direction says.                                     *)
(***************************************************************************)
IsRead(ev) == ev.op = "Read"
IsWrite(ev) == ev.op = "Write"

Reads(d) == SelectSeq(trace[d], IsRead)
Writes(d) == SelectSeq(trace[d], IsWrite)

RECURSIVE SumN(_)
SumN(evs) == IF evs = <<>> THEN 0 ELSE evs[1].n + SumN(Tail(evs))

\* The bytes the calls of evs were given, one after the other.
RECURSIVE Given(_)
Given(evs) == IF evs = <<>> THEN <<>> ELSE evs[1].data \o Given(Tail(evs))

\* The bytes the calls of evs took: the first n bytes of each.
RECURSIVE Taken(_)
Taken(evs) == IF evs = <<>> THEN <<>> ELSE SubSeq(evs[1].data, 1, evs[1].n) \o Taken(Tail(evs))

\* The whole source of direction d: what was read so far and what is left.
Source(d) == Given(Reads(d)) \o src[d]

\* Every Write so far took all it was given and returned no error.
AllFull(d) == \A i \in 1..Len(Writes(d)) :
                 /\ Writes(d)[i].n = Len(Writes(d)[i].data)
                 /\ Writes(d)[i].e = "nil"

Last(s) == s[Len(s)]

\* The last Read of direction d returned io.EOF.
SawEOF(d) == Reads(d) # <<>> /\ Last(Reads(d)).e = "EOF"

\* The error OneWayLinkSpec reports for the error e of a Read.
Reported(e) == IF e = "EOF" THEN "nil" ELSE e

(***************************************************************************)
(* C2: with no transform and a destination that takes every write in full, *)
(* once the source has reported end-of-input the bytes written are the     *)
(* source byte for byte, the count is the source's length and the error is *)
(* nil.                                                                    *)
(***************************************************************************)
C2_IdentityCopy ==
    (pc[1] = "done" /\ cb[1] = "nil" /\ AllFull(1) /\ SawEOF(1)) =>
        /\ Taken(Writes(1)) = Source(1)
        /\ written[1] = Len(Source(1))
        /\ err[1] = "nil"

C2_Witness ==
    /\ pc[1] = "done" /\ cb[1] = "nil" /\ AllFull(1) /\ SawEOF(1)
    /\ Len(Writes(1)) >= 2
    /\ Source(1) = <<97, 66>>
    /\ buf[1].len = 1

(***************************************************************************)
(* C3: a Write that returns no error and fewer bytes than it was given     *)
(* ends the copy at once with ErrShortWrite, and the count is the sum of   *)
(* what all Writes reported.                                               *)
(***************************************************************************)
C3_ShortWriteStops ==
    \A i \in 1..Len(trace[1]) :
        (/\ IsWrite(trace[1][i])
         /\ trace[1][i].e = "nil"
         /\ trace[1][i].n < Len(trace[1][i].data)) =>
            /\ i = Len(trace[1])
            /\ pc[1] = "done"
            /\ err[1] = "ErrShortWrite"
            /\ written[1] = SumN(Writes(1))

(***************************************************************************)
(* C4: with a transform that changes the length of a chunk, a destination  *)
(* that takes every write in full and a source that fails no Read, every   *)
(* chunk read is written transformed as one Write, the copy ends at the    *)
(* source's end-of-input with no error, and the count is the sum of the    *)
(* lengths of the transformed chunks.                                      *)
(***************************************************************************)
NonEmpty(ev) == ev.n > 0

RECURSIVE Transformed(_, _)
Transformed(f, evs) ==
    IF evs = <<>> THEN <<>>
    ELSE <<Apply(f, evs[1].data)>> \o Transformed(f, Tail(evs))

RECURSIVE SumLen(_)
SumLen(ss) == IF ss = <<>> THEN 0 ELSE Len(ss[1]) + SumLen(Tail(ss))

NoReadError(d) == \A i \in 1..Len(Reads(d)) : Reads(d)[i].e \in {"nil", "EOF"}

C4_LengthChangingCopy ==
    (pc[1] = "done" /\ cb[1] \in {"double", "trunc"} /\ AllFull(1) /\ NoReadError(1)) =>
        LET chunks == Transformed(cb[1], SelectSeq(Reads(1), NonEmpty))
        IN  /\ SawEOF(1)
            /\ err[1] = "nil"
            /\ [i \in 1..Len(Writes(1)) |-> Writes(1)[i].data] = chunks
            /\ written[1] = SumLen(chunks)

(***************************************************************************)
(* C5: a Write that returns an error ends the copy at once with that       *)
(* error, whether or not it was short, and the count is what the earlier   *)
(* Writes reported plus what the failing Write reported.                   *)
(***************************************************************************)
C5_WriteErrorStops ==
    \A i \in 1..Len(trace[1]) :
        (IsWrite(trace[1][i]) /\ trace[1][i].e # "nil") =>
            /\ i = Len(trace[1])
            /\ pc[1] = "done"
            /\ err[1] = trace[1][i].e
            /\ written[1] = SumN(Writes(1))

C5_Witness ==
    /\ pc[1] = "done"
    /\ Len(Writes(1)) = 2
    /\ Writes(1)[1].e = "nil" /\ Writes(1)[1].n = 1
    /\ Last(trace[1]).op = "Write"
    /\ Last(trace[1]).e = "ErrWrite"
    /\ Last(trace[1]).n = 1
    /\ Len(Last(trace[1]).data) = 2
    /\ written[1] = 2

(***************************************************************************)
(* C9: when every Write took all it was given, a Read that returns an      *)
(* error ends the copy with that error (nil for io.EOF) and no call        *)
(* follows but the Write of the bytes that Read returned.                  *)
(***************************************************************************)
C9_ReadErrorStops ==
    \A i \in 1..Len(trace[1]) :
        (IsRead(trace[1][i]) /\ trace[1][i].e # "nil" /\ AllFull(1)) =>
            /\ i >= Len(trace[1]) - 1
            /\ i = Len(trace[1]) - 1 => trace[1][i].n > 0 /\ IsWrite(Last(trace[1]))
            /\ (i = Len(trace[1]) /\ trace[1][i].n > 0) => pc[1] = "write"
            /\ pc[1] # "write" =>
                  /\ pc[1] = "done"
                  /\ err[1] = Reported(trace[1][i].e)

(***************************************************************************)
(* The claims about TwoWayLinkSpec.                                        *)
(***************************************************************************)
Returned == pcMain = "returned"

(***************************************************************************)
(* C1: the e1 that TwoWayLinkSpec returns is the error the copy h1 -> h2   *)
(* ended with and the e2 it returns is the error the copy h2 -> h1 ended   *)
(* with, whatever the interleaving of the two flows.                       *)
(***************************************************************************)
C1_ErrorsPerDirection ==
    Returned => (e1 = err[1] /\ e2 = err[2])

(***************************************************************************)
(* C6: once the copy of a direction has returned, the flow that ran it     *)
(* goes on to close both endpoints without waiting for the other flow (it  *)
(* always has a step to take until both are closed), and when              *)
(* TwoWayLinkSpec has returned both endpoints have been closed.            *)
(***************************************************************************)
ClosedBoth(f) == f \in closers[1] /\ f \in closers[2]

C6_TerminationClosesBoth ==
    /\ pcBg \in {"signal", "end"} => ClosedBoth("bg")
    /\ pcMain \in {"wait", "returned"} => ClosedBoth("main")
    /\ (pc[1] = "done" /\ ~ClosedBoth("bg")) =>
          ENABLED (BgStore \/ BgTest \/ BgClose1 \/ BgClose2)
    /\ (pc[2] = "done" /\ ~ClosedBoth("main")) =>
          ENABLED (MainStore \/ MainTest \/ MainClose2 \/ MainClose1)
    /\ Returned => (closed[1] > 0 /\ closed[2] > 0)

\* The caller's flow has closed both endpoints while the copy h1 -> h2 still runs.
C6_Witness ==
    /\ pcMain = "wait"
    /\ ClosedBoth("main")
    /\ pc[1] # "done"
    /\ closers[1] = {"main"}
    /\ err[2] = "ErrShortWrite"

(***************************************************************************)
(* C7: when TwoWayLinkSpec has returned, both copies have returned, the    *)
(* goroutine has closed both endpoints and has closed the channel exit.    *)
(***************************************************************************)
C7_ReturnsAfterBoth ==
    Returned =>
        /\ pc[1] = "done"
        /\ pc[2] = "done"
        /\ ClosedBoth("bg")
        /\ exit > 0
        /\ pcBg = "end"

\* The caller's copy ended first and the return had to wait for the goroutine.
C7_Witness ==
    /\ Returned
    /\ order = <<2, 1>>
    /\ err[1] = "ErrClosed"

(***************************************************************************)
(* C8: when the source of endpoint 1 reaches end-of-input and the copy     *)
(* h1 -> h2 ends cleanly before the copy h2 -> h1 has ended, the call      *)
(* returns with both endpoints closed, e1 = nil and e2 the error the copy  *)
(* h2 -> h1 ended with.                                                    *)
(***************************************************************************)
EndOfInputFirst ==
    /\ order # <<>>
    /\ order[1] = 1
    /\ SawEOF(1)
    /\ err[1] = "nil"

\* The part of C8 that is about progress, under FairSpec: the relay returns.
C8_TearsDown == EndOfInputFirst ~> (Returned /\ closed[1] > 0 /\ closed[2] > 0)

C8_EndOfInputTearsDown ==
    (Returned /\ EndOfInputFirst) =>
        /\ closed[1] > 0
        /\ closed[2] > 0
        /\ e1 = "nil"
        /\ e2 = err[2]

(***************************************************************************)
(* C10: the w1 that TwoWayLinkSpec returns is the count of the copy        *)
(* h1 -> h2, the sum of what its own Writes reported, and the w2 it        *)
(* returns is the count of the copy h2 -> h1, in whatever order the two    *)
(* copies ended.                                                           *)
(***************************************************************************)
C10_CountsPerDirection ==
    Returned =>
        /\ w1 = written[1]
        /\ w2 = written[2]
        /\ w1 = SumN(Writes(1))
        /\ w2 = SumN(Writes(2))

C10_Witness ==
    /\ Returned
    /\ w1 = 0
    /\ w2 = 1
    /\ Writes(1) # <<>>
    /\ order = <<2, 1>>

(***************************************************************************)
(* C11: OneWayLinkSpec never closes its source or its destination: a step  *)
(* of a copy, a Read or a Write, whatever it returns and however it ends   *)
(* the copy, leaves the number of Close calls on both endpoints and the    *)
(* set of flows that called Close as they were, whether the endpoints were *)
(* open or already closed by the relay.                                    *)
(***************************************************************************)
C11_CopyNeverCloses ==
    [][trace' # trace => (closed' = closed /\ closers' = closers)]_vars

\* A copy of the relay has ended on an endpoint the other flow had closed, and
\* the endpoints carry the Close calls of that flow only.
C11_Witness ==
    /\ pc[1] = "done"
    /\ err[1] = "ErrClosed"
    /\ Writes(1) # <<>>
    /\ pcBg = "copy"
    /\ closed = [h \in Dir |-> 1]
    /\ closers = [h \in Dir |-> {"main"}]

(***************************************************************************)
(* C12: cancellation does not abort the copy.  What a copy has done is     *)
(* decided by what its Reads and Writes returned and by nothing else: with *)
(* a nil context the loop is the function Replay of those results, and     *)
(* with a context that is live, done from the start or cancelled at any    *)
(* point of the run, the position, the count and the error of the copy are *)
(* that same function of the same results.                                 *)
(***************************************************************************)
\* The loop of lines 27-60 with a nil context, run over the results evs of its
\* calls from the state st.
RECURSIVE Replay(_, _)
Replay(evs, st) ==
    IF evs = <<>> THEN st
    ELSE LET ev == evs[1]
             stopped(e) == [st EXCEPT !.pc = "done", !.err = e]
             afterRead(e) == IF e = "nil" THEN [st EXCEPT !.pc = "read"]
                             ELSE IF e = "EOF" THEN [st EXCEPT !.pc = "done"]
                             ELSE stopped(e)
         IN  IF ev.op = "Read"
             THEN Replay(Tail(evs),
                    IF ev.n > 0
                    THEN [st EXCEPT !.pc = "write", !.rn = ev.n, !.er = ev.e]
                    ELSE afterRead(ev.e))
             ELSE LET counted == [st EXCEPT !.written = IF ev.n > 0 THEN @ + ev.n ELSE @]
                  IN  Replay(Tail(evs),
                        IF ev.e # "nil" THEN [counted EXCEPT !.pc = "done", !.err = ev.e]
                        ELSE IF ev.n # st.rn
                        THEN [counted EXCEPT !.pc = "done", !.err = "ErrShortWrite"]
                        ELSE IF st.er = "nil" THEN [counted EXCEPT !.pc = "read"]
                        ELSE IF st.er = "EOF" THEN [counted EXCEPT !.pc = "done"]
                        ELSE [counted EXCEPT !.pc = "done", !.err = st.er])

Started == [pc |-> "read", written |-> 0, err |-> "nil", rn |-> 0, er |-> "nil"]

C12_CancellationIgnored ==
    LET st == Replay(trace[1], Started)
    IN  /\ pc[1] = st.pc
        /\ written[1] = st.written
        /\ err[1] = st.err

\* A copy whose context is done has gone through two rounds of Read and Write
\* and ended on the source's end-of-input.
C12_Witness ==
    /\ ctx = "done"
    /\ pc[1] = "done"
    /\ Len(Writes(1)) = 2
    /\ AllFull(1)
    /\ SawEOF(1)
    /\ err[1] = "nil"
    /\ written[1] = 2

(***************************************************************************)
(* C13: when the transform turns a chunk that was read into the empty      *)
(* sequence, the destination is asked to write zero bytes, its result      *)
(* (0, nil) is not an error, and the copy goes on to the next Read.        *)
(***************************************************************************)
C13_EmptyWriteContinues ==
    \A i \in 2..Len(trace[1]) :
        (/\ IsRead(trace[1][i - 1])
         /\ trace[1][i - 1].n > 0
         /\ trace[1][i - 1].e = "nil"
         /\ IsWrite(trace[1][i])
         /\ trace[1][i].data = <<>>
         /\ trace[1][i].n = 0
         /\ trace[1][i].e = "nil") =>
            /\ err[1] = "nil"
            /\ i = Len(trace[1]) => pc[1] = "read"
            /\ i < Len(trace[1]) => IsRead(trace[1][i + 1])

(***************************************************************************)
(* C14: a Read that returns zero bytes and no error is followed by no      *)
(* Write: the count and the error stay as they were and the next call of   *)
(* the copy is another Read.                                               *)
(***************************************************************************)
IsIdle(ev) == IsRead(ev) /\ ev.n = 0 /\ ev.e = "nil"

C14_EmptyReadLoops ==
    \A i \in 1..Len(trace[1]) :
        IsIdle(trace[1][i]) =>
            LET before == Replay(SubSeq(trace[1], 1, i - 1), Started)
            IN  /\ i < Len(trace[1]) => IsRead(trace[1][i + 1])
                /\ i = Len(trace[1]) =>
                      /\ pc[1] = "read"
                      /\ written[1] = SumN(Writes(1))
                      /\ written[1] = before.written
                      /\ err[1] = before.err

\* A Read of (0, nil) came after a chunk was written and before the last chunk.
C14_Witness ==
    /\ Len(trace[1]) >= 5
    /\ IsIdle(trace[1][3])
    /\ IsWrite(trace[1][2])
    /\ IsRead(trace[1][4]) /\ trace[1][4].n = 1
    /\ IsWrite(trace[1][5])
    /\ written[1] = 2

(***************************************************************************)
(* C15: within a direction Reads and Writes alternate with no pipelining.  *)
(* Every Read that returned at least one byte is followed, before any      *)
(* other call, by one Write of the transform of exactly the bytes it       *)
(* returned; every Write follows such a Read; so at most one chunk is in   *)
(* flight and the chunks are written in the order they were read.          *)
(***************************************************************************)
C15_NoPipelining ==
    LET chunks == Transformed(cb[1], SelectSeq(Reads(1), NonEmpty))
        inFlight == Len(chunks) - Len(Writes(1))
    IN  /\ \A i \in 1..Len(trace[1]) :
              /\ (IsRead(trace[1][i]) /\ trace[1][i].n > 0) =>
                    /\ i = Len(trace[1]) => pc[1] = "write"
                    /\ i < Len(trace[1]) =>
                          /\ IsWrite(trace[1][i + 1])
                          /\ trace[1][i + 1].data = Apply(cb[1], trace[1][i].data)
              /\ (IsRead(trace[1][i]) /\ trace[1][i].n = 0 /\ i < Len(trace[1])) =>
                    IsRead(trace[1][i + 1])
              /\ IsWrite(trace[1][i]) =>
                    /\ i > 1
                    /\ IsRead(trace[1][i - 1])
                    /\ trace[1][i - 1].n > 0
        /\ inFlight \in {0, 1}
        /\ inFlight = 1 <=> pc[1] = "write"
        /\ [i \in 1..Len(Writes(1)) |-> Writes(1)[i].data] = SubSeq(chunks, 1, Len(Writes(1)))

\* Two chunks were read and written one after the other through a transform
\* that changes the bytes.
C15_Witness ==
    /\ cb[1] = "upper"
    /\ Len(trace[1]) >= 4
    /\ IsRead(trace[1][1]) /\ trace[1][1].data = <<97>>
    /\ IsWrite(trace[1][2]) /\ trace[1][2].data = <<65>>
    /\ IsRead(trace[1][3]) /\ trace[1][3].data = <<66>>
    /\ IsWrite(trace[1][4]) /\ trace[1][4].data = <<66>>

(***************************************************************************)
(* C16: with no transform, a buffer of B bytes and a source of N bytes     *)
(* that fills the buffer on every Read, no Write is given more than B      *)
(* bytes, and a copy that ends on end-of-input with every Write taken in   *)
(* full has made ceil(N/B) Writes and returns (N, nil); for "hello world"  *)
(* and B = 4 that is 3 Writes and (11, nil).                               *)
(***************************************************************************)
Capacity == IF buf[1].nil THEN defaultBufferSize ELSE buf[1].len

CeilDiv(n, b) == (n + b - 1) \div b

C16_WritesPerBuffer ==
    /\ \A i \in 1..Len(Writes(1)) : Len(Writes(1)[i].data) <= Capacity
    /\ (pc[1] = "done" /\ AllFull(1) /\ SawEOF(1)) =>
          /\ Len(Writes(1)) = CeilDiv(Len(Source(1)), Capacity)
          /\ Taken(Writes(1)) = Source(1)
          /\ written[1] = Len(Source(1))
          /\ err[1] = "nil"

\* Scenario A: "hello world" through a buffer of 4 bytes.
C16_Witness ==
    /\ pc[1] = "done"
    /\ Source(1) = HelloWorld
    /\ ~buf[1].nil /\ buf[1].len = 4
    /\ Len(Writes(1)) = 3
    /\ Taken(Writes(1)) = HelloWorld
    /\ written[1] = 11
    /\ err[1] = "nil"

(***************************************************************************)
(* C17: the channel exit is closed once, by the goroutine, after its copy  *)
(* h1 -> h2 has returned and it has called Close on h1 and on h2; the      *)
(* caller's flow never closes it, and waits on it only after its own copy  *)
(* has returned and it has called Close on both endpoints.                 *)
(***************************************************************************)
C17_SignalState ==
    /\ exit \in {0, 1}
    /\ exit = 1 <=> pcBg = "end"
    /\ exit = 1 => (pc[1] = "done" /\ ClosedBoth("bg"))
    /\ pcMain \in {"wait", "returned"} => (pc[2] = "done" /\ ClosedBoth("main"))
    /\ Returned => exit = 1

C17_SignalStep ==
    exit' # exit =>
        /\ exit = 0
        /\ pcBg = "signal"
        /\ pcBg' = "end"
        /\ pcMain' = pcMain

C17_SignalOnce == []C17_SignalState /\ [][C17_SignalStep]_vars

\* The goroutine has signalled while the caller's copy is still running.
C17_Witness ==
    /\ exit = 1
    /\ pcBg = "end"
    /\ pc[2] # "done"
    /\ pcMain = "copy"
    /\ closers = [h \in Dir |-> {"bg"}]

(***************************************************************************)
(* C18: Close is called on an endpoint only after the copy of at least one *)
(* direction has returned, and when TwoWayLinkSpec has returned each of h1 *)
(* and h2 has received two Close calls, one from the goroutine and one     *)
(* from the caller's flow.                                                 *)
(***************************************************************************)
C18_CloseCalls ==
    /\ \A h \in Dir : closed[h] > 0 => order # <<>>
    /\ \A h \in Dir : "bg" \in closers[h] => pc[1] = "done"
    /\ \A h \in Dir : "main" \in closers[h] => pc[2] = "done"
    /\ Returned => \A h \in Dir : closed[h] = 2 /\ closers[h] = Flows

\* Both flows are in the middle of their Close calls at the same time.
C18_Witness ==
    /\ pcBg = "close2"
    /\ pcMain = "close1"
    /\ closed = [h \in Dir |-> 1]
    /\ closers[1] = {"bg"}
    /\ closers[2] = {"main"}

(***************************************************************************)
(* C19: when one Read returns both bytes and an error, the bytes are       *)
(* transformed and written before the error is acted on.  If that Write    *)
(* takes all it was given, the copy ends with the Read's error (nil for    *)
(* io.EOF) and the chunk is counted; if it returns an error or is short,   *)
(* the copy ends with the Write's error or ErrShortWrite and the Read's    *)
(* error is dropped.                                                       *)
(***************************************************************************)
C19_BytesBeforeError ==
    \A i \in 1..Len(trace[1]) :
        (IsRead(trace[1][i]) /\ trace[1][i].n > 0 /\ trace[1][i].e # "nil") =>
            /\ i = Len(trace[1]) => pc[1] = "write"
            /\ i < Len(trace[1]) =>
                  LET w == trace[1][i + 1]
                  IN  /\ IsWrite(w)
                      /\ w.data = Apply(cb[1], trace[1][i].data)
                      /\ i + 1 = Len(trace[1])
                      /\ pc[1] = "done"
                      /\ written[1] = SumN(Writes(1))
                      /\ err[1] = IF w.e # "nil" THEN w.e
                                  ELSE IF w.n < Len(w.data) THEN "ErrShortWrite"
                                  ELSE Reported(trace[1][i].e)

(***************************************************************************)
(* C20: OneWayLinkSpec terminates.  On a source that reports end-of-input  *)
(* or an error within finitely many Reads, and whatever the destination    *)
(* returns, the copy returns after finitely many calls, and it never makes *)
(* more Writes than Reads.                                                 *)
(***************************************************************************)
C20_Terminates ==
    /\ <>(pc[1] = "done")
    /\ [](Len(Writes(1)) <= Len(Reads(1)))
    /\ [](Len(Reads(1)) <= Len(Source(1)) + MaxIdle + 1)

\* A copy has returned after two chunks, a Read of (0, nil) and the
\* end-of-input on a Read of its own.
C20_Witness ==
    /\ pc[1] = "done"
    /\ Len(Reads(1)) = 4
    /\ Len(Writes(1)) = 2
    /\ SawEOF(1)
    /\ Last(trace[1]).op = "Read"

====
